---- MODULE Spec2Model ----
(***************************************************************************)
(* Multi-tenancy core of the DED inventory system: the tenant locator and  *)
(* provisioner (app/tenant_manager.py), the per-request router              *)
(* (app/tenant_middleware.py), the login sequence                           *)
(* (app/auth/multi_tenant_login.py) and the license administration          *)
(* operations (license_control.py).                                         *)
(*                                                                          *)
(* Strings that the code transforms (license keys, schema names, file       *)
(* names, request paths) are sequences of tokens; a datetime is a number    *)
(* of clock ticks; a nullable column is <<>> (NULL) or <<v>>.               *)
(***************************************************************************)
EXTENDS Integers, Sequences, FiniteSets, TLC

\* ------------------------------------------------------------------ bounds
\* The clock runs from 0 to MaxTime.
MaxTime == 1
\* Identifiers handed to the locator on its own have 1 to MaxKeyLen characters.
MaxKeyLen == 2

\* ------------------------------------------------------------- vocabulary
K1 == <<"A", "A", "-", "1">>
K2 == <<"B", "B", "-", "2">>
\* A key no license record carries.
K0 == <<"Z", "Z", "-", "9">>
\* License keys held by the master registry.
LicenseKeys == {K1, K2}
\* Keys a caller may submit.
SubmittedKeys == LicenseKeys \cup {K0}

NoKey == <<>>
NULL == <<>>

Sessions == {"s1", "s2"}

\* werkzeug's one-way password hash; check_password compares hashes.
Hash(pw) == <<"hash", pw>>

\* ---------------------------------------------------------------- locator
\* Characters of an identifier: letters of both cases, a digit, '-' and '_'
KeyChars == {"A", "a", "-", "_", "1"}

LocatorKeys == UNION {[1..n -> KeyChars] : n \in 1..MaxKeyLen}

LowerChar(c) ==
    CASE c = "A" -> "a"
      [] c = "B" -> "b"
      [] c = "Z" -> "z"
      [] OTHER -> c

\* str.replace('-', '_')
ReplaceDash(s) == [i \in 1..Len(s) |-> IF s[i] = "-" THEN "_" ELSE s[i]]

\* str.lower()
Lower(s) == [i \in 1..Len(s) |-> LowerChar(s[i])]

\* TenantManager._schema_name
_schema_name(license_key) == <<"tenant_">> \o Lower(ReplaceDash(license_key))

\* TenantManager.get_tenant_db_path (file name inside the tenants directory)
get_tenant_db_path(license_key) ==
    <<"tenant_">> \o ReplaceDash(license_key) \o <<".db">>

\* str.upper()
UpperChar(c) ==
    CASE c = "a" -> "A"
      [] c = "b" -> "B"
      [] c = "z" -> "Z"
      [] OTHER -> c

Upper(s) == [i \in 1..Len(s) |-> UpperChar(s[i])]

\* str.replace('_', '-')
ReplaceUnderscore(s) == [i \in 1..Len(s) |-> IF s[i] = "_" THEN "-" ELSE s[i]]

NotTenantPrefix(token) == token # "tenant_"

\* list_all_tenants, PostgreSQL: the key it gives for a schema name
\* row[0].replace('tenant_', '').replace('_', '-').upper()
SchemaToKey(name) == Upper(ReplaceUnderscore(SelectSeq(name, NotTenantPrefix)))

\* list_all_tenants, SQLite: the key it gives for a file name
\* f[7:-3].replace('_', '-')
FileToKey(f) == ReplaceUnderscore(SubSeq(f, 2, Len(f) - 1))

\* TenantManager.list_all_tenants over the schemas / files that exist
ListTenants(strategy_, targets) ==
    IF strategy_ = "postgres"
    THEN {SchemaToKey(t) : t \in {x \in targets : Len(x) >= 1 /\ x[1] = "tenant_"}}
    ELSE {FileToKey(t) : t \in {x \in targets : /\ Len(x) >= 2 /\ x[1] = "tenant_"
                                                /\ x[Len(x)] = ".db"}}

\* The public schema / licenses_master.db
MasterTarget(strategy_) ==
    IF strategy_ = "postgres" THEN <<"public">> ELSE <<"licenses_master.db">>

\* The storage target the active strategy derives for a key
TargetFor(strategy_, license_key) ==
    IF strategy_ = "postgres" THEN _schema_name(license_key)
    ELSE get_tenant_db_path(license_key)

\* ------------------------------------------------------------- seed bundle
SeedRoles == {"admin", "manager", "user"}
SeedAccounts == {"1000", "2000", "3000", "4000", "5000"}

\* A storage target that does not exist
NoStore ==
    [exists |-> FALSE, tables |-> FALSE,
     roles |-> [r \in SeedRoles |-> 0], branches |-> 0,
     accounts |-> [a \in SeedAccounts |-> 0], users |-> <<>>]

\* Rows of a table carrying a given natural key
UsersNamed(store, username) ==
    {i \in 1..Len(store.users) : store.users[i].username = username}

UsersWithEmail(store, email) ==
    {i \in 1..Len(store.users) : store.users[i].email = email}

SetMin(S) == CHOOSE x \in S : \A y \in S : x <= y

\* Query.first(): the first matching row id, or 0 for None
FirstUserNamed(store, username) ==
    IF UsersNamed(store, username) = {} THEN 0
    ELSE SetMin(UsersNamed(store, username))

RoleCount(store) ==
    store.roles["admin"] + store.roles["manager"] + store.roles["user"]

AccountCount(store) ==
    store.accounts["1000"] + store.accounts["2000"] + store.accounts["3000"]
    + store.accounts["4000"] + store.accounts["5000"]

\* ------------------------------------------------------------------ seeding
\* The e-mail initialize_tenant_data gives the admin user
SeedEmail(lic) ==
    IF lic.client_email = NULL \/ ~(\E i \in 1..Len(lic.client_email) : lic.client_email[i] = "@")
    THEN <<lic.admin_username, "@", "company", ".com">>
    ELSE lic.client_email

\* initialize_tenant_data adding every seed item without looking first
SeedQuery_NoCheck(store, lic) ==
    [roles |-> SeedRoles, branch |-> TRUE,
     admin |-> lic.admin_username # "" /\ lic.admin_password_hash # NULL,
     accounts |-> SeedAccounts]

\* The existence queries of initialize_tenant_data: what it found missing
SeedQuery(store, lic) ==
    [roles |-> {r \in SeedRoles : store.roles[r] = 0},
     branch |-> store.branches = 0,
     admin |-> /\ lic.admin_username # "" /\ lic.admin_password_hash # NULL
               /\ UsersNamed(store, lic.admin_username) = {}
               /\ UsersWithEmail(store, SeedEmail(lic)) = {},
     accounts |-> {a \in SeedAccounts : store.accounts[a] = 0}]

\* The admin user given a hash of the license's hash (set_password on it)
AdminUser_Rehashed(lic) ==
    [username |-> lic.admin_username, email |-> SeedEmail(lic),
     password_hash |-> Hash(lic.admin_password_hash),
     is_active |-> TRUE, is_admin |-> TRUE, last_login |-> NULL]

\* The User row initialize_tenant_data builds from the license record
AdminUser(lic) ==
    [username |-> lic.admin_username, email |-> SeedEmail(lic),
     password_hash |-> lic.admin_password_hash,
     is_active |-> TRUE, is_admin |-> TRUE, last_login |-> NULL]

\* The sess.add calls and the commit of initialize_tenant_data
SeedCommit(store, missing, lic) ==
    [store EXCEPT
       !.roles = [r \in SeedRoles |-> IF r \in missing.roles THEN @[r] + 1 ELSE @[r]],
       !.branches = IF missing.branch THEN @ + 1 ELSE @,
       !.users = IF missing.admin THEN Append(@, AdminUser(lic)) ELSE @,
       !.accounts = [a \in SeedAccounts |-> IF a \in missing.accounts THEN @[a] + 1 ELSE @[a]]]

\* A rollback that keeps what was flushed before the failure: the roles
\* and the branch
SeedRollback_KeepsFlushed(store, missing, lic) ==
    SeedCommit(store, [missing EXCEPT !.admin = FALSE, !.accounts = {}], lic)

\* sess.rollback() in the except clause: the added and flushed rows of the
\* open transaction are discarded
SeedRollback(store, missing, lic) == store

\* A row this transaction adds was committed by another one in between
SeedConflict(store, missing, lic) ==
    \/ \E r \in missing.roles : store.roles[r] > 0
    \/ missing.branch /\ store.branches > 0
    \/ missing.admin /\ UsersNamed(store, lic.admin_username) # {}
    \/ \E a \in missing.accounts : store.accounts[a] > 0

\* ------------------------------------------------------------ provisioning
Faults == {"none", "early", "late"}

\* TenantManager.create_tenant_database: [ok, store, bind]; bind says what
\* the call leaves the search_path at ("keep": untouched)
CreateTenant(strategy_, store, fault) ==
    IF strategy_ = "postgres" THEN
        CASE fault = "early" -> [ok |-> FALSE, store |-> store, bind |-> "keep"]
          [] fault = "late" ->
                [ok |-> FALSE, store |-> [store EXCEPT !.exists = TRUE], bind |-> "tenant"]
          [] OTHER ->
                [ok |-> TRUE, store |-> [store EXCEPT !.exists = TRUE, !.tables = TRUE],
                 bind |-> "master"]
    ELSE
        CASE store.exists -> [ok |-> TRUE, store |-> store, bind |-> "keep"]
          [] fault = "early" -> [ok |-> FALSE, store |-> store, bind |-> "keep"]
          [] fault = "late" ->
                [ok |-> FALSE, store |-> [store EXCEPT !.exists = TRUE], bind |-> "keep"]
          [] OTHER ->
                [ok |-> TRUE, store |-> [store EXCEPT !.exists = TRUE, !.tables = TRUE],
                 bind |-> "keep"]

\* Connecting to a SQLite file creates it; a schema is never created by use
Touch(strategy_, store) ==
    IF strategy_ = "sqlite" THEN [store EXCEPT !.exists = TRUE] ELSE store

\* TenantManager.initialize_tenant_data run without interleaving: [ok, store]
InitializeTenant(strategy_, store, lic, fault) ==
    IF ~store.tables \/ ~store.exists THEN [ok |-> FALSE, store |-> Touch(strategy_, store)]
    ELSE IF fault # "none"
         THEN [ok |-> FALSE, store |-> SeedRollback(store, SeedQuery(store, lic), lic)]
    ELSE [ok |-> TRUE, store |-> SeedCommit(store, SeedQuery(store, lic), lic)]

\* TenantManager.delete_tenant_database: [ok, store]
DeleteTenant(strategy_, store) ==
    IF strategy_ = "postgres" THEN [ok |-> TRUE, store |-> NoStore]
    ELSE IF store.exists THEN [ok |-> TRUE, store |-> NoStore]
    ELSE [ok |-> FALSE, store |-> store]

\* ------------------------------------------------------------------- state
VARIABLES
    strategy,   \* "postgres" (schema per tenant) or "sqlite" (file per tenant)
    threaded,   \* whether the server handles requests concurrently
    now,        \* datetime.utcnow()
    licenses,   \* the licenses table of the master store, by license_key
    stores,     \* the tenant schemas / files, by storage target
    binding,    \* the process-wide search_path / SQLALCHEMY_DATABASE_URI
    session,    \* session['tenant_license_key'] of each client session
    proc,       \* the request each session has in flight, with its locals
    lastAdmin,  \* the last administrative call and what it returned
    located     \* the identifiers handed to the locator and what it derived

vars == <<strategy, threaded, now, licenses, stores, binding, session, proc, lastAdmin,
          located>>

Master == MasterTarget(strategy)
Target(k) == TargetFor(strategy, k)

NoLicense ==
    [present |-> FALSE, is_active |-> FALSE, is_suspended |-> FALSE,
     expires_at |-> NULL, admin_username |-> "", admin_password_hash |-> NULL,
     client_email |-> NULL]

NewLicense(k, expires) ==
    [present |-> TRUE, is_active |-> TRUE, is_suspended |-> FALSE,
     expires_at |-> expires, admin_username |-> "admin",
     admin_password_hash |-> Hash("secret"),
     client_email |-> IF k = K1 THEN <<"owner", "@", "client.example">> ELSE NULL]

NoMissing == [roles |-> {}, branch |-> FALSE, admin |-> FALSE, accounts |-> {}]

IdleProc ==
    [pc |-> "idle", kind |-> "none", key |-> NoKey, username |-> "", password |-> "",
     path |-> <<>>, lic |-> NoLicense, missing |-> NoMissing, uid |-> 0,
     result |-> "none", user |-> NULL, touched |-> {}, obs |-> NULL,
     license_data |-> NULL, authenticated |-> FALSE]

NoAdmin == <<"none", FALSE>>

\* No locator call under observation
NoLocated == [keys |-> <<>>, schemas |-> <<>>, paths |-> <<>>, listed |-> <<>>]

Init ==
    /\ strategy \in {"postgres", "sqlite"}
    /\ threaded = FALSE
    /\ now = 0
    /\ licenses = [k \in SubmittedKeys |->
                     IF k \in LicenseKeys
                     THEN NewLicense(k, IF k = K1 THEN <<0>> ELSE NULL)
                     ELSE NoLicense]
    /\ stores = [t \in {TargetFor(strategy, k) : k \in SubmittedKeys} |-> NoStore]
    /\ binding = Master
    /\ session = [s \in Sessions |-> NoKey]
    /\ proc = [s \in Sessions |-> IdleProc]
    /\ lastAdmin = NoAdmin
    /\ located = NoLocated

AllIdle == lastAdmin = NoAdmin /\ \A s \in Sessions : proc[s].pc = "idle"

\* A request or an administrative call may start: at any time on a threaded
\* server, otherwise when nothing else is being handled
Admit == threaded \/ AllIdle

\* Where a provisioning call leaves the process-wide binding
Rebind(bind, k) ==
    CASE bind = "master" -> Master
      [] bind = "tenant" -> Target(k)
      [] OTHER -> binding

\* datetime comparison `expires_at and expires_at < utcnow()`
Expired(lic) == lic.expires_at # NULL /\ lic.expires_at[1] < now

\* ------------------------------------------------------------ login sequence
\* Step 1 without the expiry test
LicenseVerdict_NoExpiry(lic) ==
    CASE ~lic.present -> "license_not_found"
      [] ~lic.is_active -> "license_inactive"
      [] lic.is_suspended -> "license_suspended"
      [] OTHER -> "ok"

\* Step 1 of authenticate_with_license: why the license is refused, or "ok"
LicenseVerdict(lic) ==
    CASE ~lic.present -> "license_not_found"
      [] ~lic.is_active -> "license_inactive"
      [] lic.is_suspended -> "license_suspended"
      [] Expired(lic) -> "license_expired"
      [] OTHER -> "ok"

\* Step 3 testing is_active before the password
UserVerdict_ActiveFirst(store, username, password) ==
    LET uid == FirstUserNamed(store, username) IN
    CASE uid = 0 -> "user_not_found"
      [] ~store.users[uid].is_active -> "account_inactive"
      [] store.users[uid].password_hash # Hash(password) -> "bad_password"
      [] OTHER -> "ok"

\* Step 3 without the is_active test
UserVerdict_NoActiveCheck(store, username, password) ==
    LET uid == FirstUserNamed(store, username) IN
    CASE uid = 0 -> "user_not_found"
      [] store.users[uid].password_hash # Hash(password) -> "bad_password"
      [] OTHER -> "ok"

\* Step 3 of authenticate_with_license: why the user is refused, or "ok"
UserVerdict(store, username, password) ==
    LET uid == FirstUserNamed(store, username) IN
    CASE uid = 0 -> "user_not_found"
      [] store.users[uid].password_hash # Hash(password) -> "bad_password"
      [] ~store.users[uid].is_active -> "account_inactive"
      [] OTHER -> "ok"

\* The message authenticate_with_license returns with each result (the
\* Arabic texts rendered in English, the leading symbol as a word)
Message(result) ==
    CASE result = "license_not_found" -> <<"key", "license key is incorrect">>
      [] result = "license_inactive" -> <<"key", "license is not active">>
      [] result = "license_suspended" ->
            <<"key", "license is suspended: ", "please contact support">>
      [] result = "license_expired" -> <<"key", "license has expired">>
      [] result = "create_failed" -> <<"cross", "creating the license database failed">>
      [] result = "init_failed" -> <<"cross", "initializing the license data failed">>
      [] result = "user_not_found" -> <<"cross", "user name does not exist">>
      [] result = "bad_password" -> <<"cross", "password is incorrect">>
      [] result = "account_inactive" -> <<"cross", "account is not active">>
      [] result = "user_load_error" -> <<"cross", "error loading the user data">>
      [] result = "ok" -> <<"check", "logged in successfully">>
      [] OTHER -> <<>>

Finish(s, verdict, rec) ==
    proc' = [proc EXCEPT ![s] = [rec EXCEPT !.pc = "done", !.result = verdict]]

\* Step 1: bind to the master store and verify the license
LoginVerifyLicense(s, username, password, license_key) ==
    /\ proc[s].pc = "idle" /\ Admit
    /\ binding' = Master
    /\ LET lic == licenses[license_key]
           rec == [IdleProc EXCEPT !.kind = "login", !.key = license_key,
                     !.username = username, !.password = password,
                     !.lic = lic]
       IN IF LicenseVerdict(lic) # "ok"
          THEN Finish(s, LicenseVerdict(lic), rec)
          ELSE proc' = [proc EXCEPT ![s] = [rec EXCEPT !.pc = "L_exists"]]
    /\ UNCHANGED <<located, strategy, threaded, now, licenses, stores, session, lastAdmin>>

\* Step 2, the existence check (schema catalog lookup / os.path.exists)
LoginCheckExists(s) ==
    /\ proc[s].pc = "L_exists"
    /\ LET rec == [proc[s] EXCEPT !.touched = @ \cup {"exists"}]
       IN proc' = [proc EXCEPT ![s] =
                     [rec EXCEPT !.pc = IF stores[Target(rec.key)].exists
                                        THEN "L_auth" ELSE "L_create"]]
    /\ UNCHANGED <<located, strategy, threaded, now, licenses, stores, binding, session, lastAdmin>>

\* Step 2, create_tenant_database
LoginCreate(s, faults) ==
    /\ proc[s].pc = "L_create"
    /\ \E fault \in faults :
         LET k == proc[s].key
             r == CreateTenant(strategy, stores[Target(k)], fault)
             rec == [proc[s] EXCEPT !.touched = @ \cup {"create"}]
         IN /\ stores' = [stores EXCEPT ![Target(k)] = r.store]
            /\ binding' = Rebind(r.bind, k)
            /\ IF r.ok THEN proc' = [proc EXCEPT ![s] = [rec EXCEPT !.pc = "L_seed"]]
               ELSE Finish(s, "create_failed", rec)
    /\ UNCHANGED <<located, strategy, threaded, now, licenses, session, lastAdmin>>

\* Step 2, initialize_tenant_data up to its last existence query
LoginSeedQuery(s, faults) ==
    /\ proc[s].pc = "L_seed"
    /\ \E fault \in faults \cap {"none", "early"} :
         LET k == proc[s].key
             st == stores[Target(k)]
             rec == [proc[s] EXCEPT !.touched = @ \cup {"init"}]
         IN IF ~st.exists \/ ~st.tables \/ fault # "none"
            THEN /\ stores' = [stores EXCEPT ![Target(k)] =
                                 IF st.tables THEN st ELSE Touch(strategy, st)]
                 /\ binding' = IF strategy = "postgres" THEN Master ELSE binding
                 /\ Finish(s, "init_failed", rec)
            ELSE /\ stores' = stores
                 /\ binding' = IF strategy = "postgres" THEN Target(k) ELSE binding
                 /\ proc' = [proc EXCEPT ![s] =
                               [rec EXCEPT !.pc = "L_commit",
                                           !.missing = SeedQuery(st, rec.lic)]]
    /\ UNCHANGED <<located, strategy, threaded, now, licenses, session, lastAdmin>>

\* Step 2, the commit of initialize_tenant_data. When another transaction
\* committed one of the rows in between, the outcome depends on the unique
\* constraints of the schema bundle: the commit fails or the row is doubled.
LoginSeedCommit(s, faults) ==
    /\ proc[s].pc = "L_commit"
    /\ \E fault \in faults \cap {"none", "late"}, unique \in BOOLEAN :
         LET k == proc[s].key
             st == stores[Target(k)]
             rec == [proc[s] EXCEPT !.missing = NoMissing]
             conflict == SeedConflict(st, proc[s].missing, rec.lic)
         IN /\ unique => conflict
            /\ IF ~st.exists \/ ~st.tables \/ fault # "none" \/ (conflict /\ unique)
               THEN /\ stores' = [stores EXCEPT ![Target(k)] =
                                    SeedRollback(st, proc[s].missing, rec.lic)]
                    /\ Finish(s, "init_failed", rec)
               ELSE /\ stores' = [stores EXCEPT ![Target(k)] =
                                    SeedCommit(st, proc[s].missing, rec.lic)]
                    /\ proc' = [proc EXCEPT ![s] = [rec EXCEPT !.pc = "L_auth"]]
    /\ binding' = IF strategy = "postgres" THEN Master ELSE binding
    /\ UNCHANGED <<located, strategy, threaded, now, licenses, session, lastAdmin>>

\* Step 3: look the user up inside the tenant store. PostgreSQL moves the
\* process-wide search_path; SQLite reads through a transient engine.
LoginAuthenticate(s) ==
    /\ proc[s].pc = "L_auth"
    /\ LET k == proc[s].key
           st == stores[Target(k)]
           rec == [proc[s] EXCEPT !.touched = @ \cup {"bind"}]
           verdict == UserVerdict(st, rec.username, rec.password)
       IN /\ binding' = IF strategy = "postgres" THEN Target(k) ELSE binding
          /\ IF ~st.exists \/ ~st.tables
             THEN /\ stores' = [stores EXCEPT ![Target(k)] = Touch(strategy, st)]
                  /\ Finish(s, "exception", rec)
             ELSE /\ stores' = stores
                  /\ IF verdict # "ok" THEN Finish(s, verdict, rec)
                     ELSE proc' = [proc EXCEPT ![s] =
                                     [rec EXCEPT !.pc = "L_promote",
                                         !.uid = FirstUserNamed(st, rec.username)]]
    /\ UNCHANGED <<located, strategy, threaded, now, licenses, session, lastAdmin>>

\* The rows db.session resolves against under the current binding
Resolves(b, uid) ==
    /\ b \in DOMAIN stores
    /\ stores[b].exists /\ stores[b].tables
    /\ uid \in 1..Len(stores[b].users)

\* Step 4 reloading the user before the binding is moved to the tenant
LoginPromote_ReloadFirst(s) ==
    /\ proc[s].pc = "L_promote"
    /\ LET k == proc[s].key
           rec == proc[s]
       IN /\ binding' = IF strategy = "postgres" THEN binding ELSE Target(k)
          /\ IF Resolves(binding, rec.uid)
             THEN /\ stores' = [stores EXCEPT ![binding].users[rec.uid].last_login = <<now>>]
                  /\ session' = [session EXCEPT ![s] = k]
                  /\ Finish(s, "ok", [rec EXCEPT !.user = <<binding, rec.uid>>])
             ELSE /\ stores' = stores
                  /\ session' = session
                  /\ Finish(s, IF strategy = "postgres" THEN "exception"
                               ELSE "user_load_error", rec)
    /\ UNCHANGED <<located, strategy, threaded, now, licenses, lastAdmin>>

\* Step 4: make the tenant the process-wide binding, record last_login on
\* the user row and bind the session
LoginPromote(s) ==
    /\ proc[s].pc = "L_promote"
    /\ LET k == proc[s].key
           rec == proc[s]
           b == IF strategy = "postgres" THEN binding ELSE Target(k)
       IN /\ binding' = b
          /\ IF Resolves(b, rec.uid)
             THEN /\ stores' = [stores EXCEPT ![b].users[rec.uid].last_login = <<now>>]
                  /\ session' = [session EXCEPT ![s] = k]
                  /\ Finish(s, "ok", [rec EXCEPT !.user = <<b, rec.uid>>])
             ELSE /\ stores' = stores
                  /\ session' = session
                  /\ Finish(s, IF strategy = "postgres" THEN "exception"
                               ELSE "user_load_error", rec)
    /\ UNCHANGED <<located, strategy, threaded, now, licenses, lastAdmin>>

\* The caller takes the result; the request is over
Return(s) ==
    /\ proc[s].pc = "done"
    /\ proc' = [proc EXCEPT ![s] = IdleProc]
    /\ UNCHANGED <<located, strategy, threaded, now, licenses, stores, binding, session, lastAdmin>>

\* -------------------------------------------------------------------- router
EXEMPT_ROUTES ==
    {<<"/static/">>, <<"/auth/login">>, <<"/auth/logout">>, <<"/auth/register">>,
     <<"/security/license">>, <<"/security/create_license">>,
     <<"/_debug_toolbar/">>, <<"/favicon.ico">>}

\* Paths of the requests a client sends
RequestPaths == {<<"/static/", "app.css">>, <<"/inventory/", "items">>}

\* str.startswith
StartsWith(path, prefix) ==
    /\ Len(prefix) <= Len(path)
    /\ \A i \in 1..Len(prefix) : path[i] = prefix[i]

\* The exemption test comparing whole paths
IsExempt_ExactMatch(path) == path \in EXEMPT_ROUTES

\* for exempt_route in EXEMPT_ROUTES: if request.path.startswith(exempt_route)
IsExempt(path) == \E e \in EXEMPT_ROUTES : StartsWith(path, e)

\* The license query without its is_active filter
RouterFinds_NoActive(lic) == lic.present /\ ~lic.is_suspended

\* The license query without its is_suspended filter
RouterFinds_NoSuspended(lic) == lic.present /\ lic.is_active

\* License.query.filter_by(license_key, is_active=True, is_suspended=False).first()
RouterFinds(lic) == lic.present /\ lic.is_active /\ ~lic.is_suspended

\* g.license_data
Snapshot(k, lic) ==
    <<[license_key |-> k, client_email |-> lic.client_email,
       expires_at |-> lic.expires_at, is_active |-> lic.is_active,
       is_suspended |-> lic.is_suspended]>>

\* A session without tenant key always sent to the login page
NoTenantRedirect_AlwaysLogin(authenticated) == "redirect_login"

\* Where a session without tenant key is sent: current_user.is_authenticated
\* decides between the logout and the login page
NoTenantRedirect(authenticated) ==
    IF authenticated THEN "redirect_logout" ELSE "redirect_login"

\* switch_tenant_database up to its finally clause: the exempt check, the
\* session lookup and the validation against the master store
RouterValidate(s, path, faults) ==
    /\ proc[s].pc = "idle" /\ Admit
    /\ LET k == session[s]
           lic == licenses[k]
           rec == [IdleProc EXCEPT !.kind = "request", !.path = path, !.key = k]
       IN IF IsExempt(path)
          THEN /\ proc' = [proc EXCEPT ![s] = [rec EXCEPT !.pc = "business",
                                                         !.result = "handoff"]]
               /\ UNCHANGED <<binding, session>>
          ELSE IF k = NoKey
          THEN /\ \E authenticated \in BOOLEAN :
                    Finish(s, NoTenantRedirect(authenticated),
                           [rec EXCEPT !.authenticated = authenticated])
               /\ UNCHANGED <<binding, session>>
          ELSE /\ binding' = Master
               /\ \E fault \in faults \cap {"none", "early"} :
                    CASE fault # "none" ->
                           /\ session' = session
                           /\ proc' = [proc EXCEPT ![s] =
                                 [rec EXCEPT !.pc = "R_finally", !.result = "exception"]]
                      [] ~RouterFinds(lic) \/ Expired(lic) ->
                           /\ session' = [session EXCEPT ![s] = NoKey]
                           /\ proc' = [proc EXCEPT ![s] =
                                 [rec EXCEPT !.pc = "R_finally", !.result = "redirect_login"]]
                      [] OTHER ->
                           /\ session' = session
                           /\ proc' = [proc EXCEPT ![s] =
                                 [rec EXCEPT !.pc = "R_finally", !.result = "handoff",
                                             !.license_data = Snapshot(k, lic)]]
    /\ UNCHANGED <<located, strategy, threaded, now, licenses, stores, lastAdmin>>

\* switch_tenant_database without its finally clause
RouterSwitch_NoRebind(s) ==
    /\ proc[s].pc = "R_finally"
    /\ proc' = [proc EXCEPT ![s].pc = IF proc[s].result = "handoff"
                                      THEN "business" ELSE "done"]
    /\ UNCHANGED <<located, strategy, threaded, now, licenses, stores, binding, session, lastAdmin>>

\* The switch to the tenant made only after a successful validation
RouterSwitch_OnlyOnHandoff(s) ==
    /\ proc[s].pc = "R_finally"
    /\ binding' = IF proc[s].result = "handoff" THEN Target(proc[s].key) ELSE binding
    /\ proc' = [proc EXCEPT ![s].pc = IF proc[s].result = "handoff"
                                      THEN "business" ELSE "done"]
    /\ UNCHANGED <<located, strategy, threaded, now, licenses, stores, session, lastAdmin>>

\* The finally clause of switch_tenant_database, then its return
RouterSwitch(s) ==
    /\ proc[s].pc = "R_finally"
    /\ binding' = Target(proc[s].key)
    /\ proc' = [proc EXCEPT ![s].pc = IF proc[s].result = "handoff"
                                      THEN "business" ELSE "done"]
    /\ UNCHANGED <<located, strategy, threaded, now, licenses, stores, session, lastAdmin>>

\* A data access of the view function: it resolves against the binding
BusinessAccess(s) ==
    /\ proc[s].pc = "business"
    /\ proc' = [proc EXCEPT ![s].pc = "done", ![s].obs = <<binding>>]
    /\ UNCHANGED <<located, strategy, threaded, now, licenses, stores, binding, session, lastAdmin>>

\* ---------------------------------------------------- license administration
\* Days an administrator extends a license by
ExtendDays == {1}

\* The administrator's own license and a key that names none
AdminKeys == {K1, K0}

\* (affected > 0, message)
AdminReturn(op, k) ==
    lastAdmin' = <<op, licenses[k].present>>

\* UPDATE licenses SET ... WHERE license_key = ?
UpdateLicense(k, lic) ==
    licenses' = IF licenses[k].present THEN [licenses EXCEPT ![k] = lic] ELSE licenses

\* An activation that sets is_active and leaves the suspension in place
activate_license_KeepsSuspension(k) ==
    /\ Admit
    /\ UpdateLicense(k, [licenses[k] EXCEPT !.is_active = TRUE])
    /\ AdminReturn("activate", k)
    /\ UNCHANGED <<located, strategy, threaded, now, stores, binding, session, proc>>

\* LicenseControl.activate_license
activate_license(k) ==
    /\ Admit
    /\ UpdateLicense(k, [licenses[k] EXCEPT !.is_active = TRUE, !.is_suspended = FALSE])
    /\ AdminReturn("activate", k)
    /\ UNCHANGED <<located, strategy, threaded, now, stores, binding, session, proc>>

\* LicenseControl.suspend_license
suspend_license(k) ==
    /\ Admit
    /\ UpdateLicense(k, [licenses[k] EXCEPT !.is_suspended = TRUE])
    /\ AdminReturn("suspend", k)
    /\ UNCHANGED <<located, strategy, threaded, now, stores, binding, session, proc>>

\* LicenseControl.deactivate_license
deactivate_license(k) ==
    /\ Admit
    /\ UpdateLicense(k, [licenses[k] EXCEPT !.is_active = FALSE])
    /\ AdminReturn("deactivate", k)
    /\ UNCHANGED <<located, strategy, threaded, now, stores, binding, session, proc>>

\* The expiry extend_license writes: the current one, or now when there is
\* none, plus the days
ExtendedExpiry(expires_at, days) ==
    <<(IF expires_at # NULL THEN expires_at[1] ELSE now) + days>>

\* LicenseControl.extend_license
extend_license(k, days) ==
    /\ Admit
    /\ licenses[k].present => ExtendedExpiry(licenses[k].expires_at, days)[1] <= MaxTime + 1
    /\ UpdateLicense(k, [licenses[k] EXCEPT
                           !.expires_at = ExtendedExpiry(licenses[k].expires_at, days)])
    /\ AdminReturn("extend", k)
    /\ UNCHANGED <<located, strategy, threaded, now, stores, binding, session, proc>>

\* The administrative removal of a license record, which drops its store
delete_license(k) ==
    /\ Admit
    /\ licenses[k].present
    /\ licenses' = [licenses EXCEPT ![k] = NoLicense]
    /\ stores' = [stores EXCEPT ![Target(k)] = DeleteTenant(strategy, @).store]
    /\ lastAdmin' = <<"delete", TRUE>>
    /\ UNCHANGED <<located, strategy, threaded, now, binding, session, proc>>

\* The administrator takes the return value
AdminDone ==
    /\ lastAdmin # NoAdmin
    /\ lastAdmin' = NoAdmin
    /\ UNCHANGED <<located, strategy, threaded, now, licenses, stores, binding, session, proc>>

\* Time passes
Tick ==
    /\ Admit
    /\ now < MaxTime
    /\ now' = now + 1
    /\ UNCHANGED <<located, strategy, threaded, licenses, stores, binding, session, proc, lastAdmin>>

\* ------------------------------------------- direct calls of the provisioner
\* TenantManager.create_tenant_database called on its own
create_tenant_database(k) ==
    /\ Admit
    /\ \E fault \in Faults :
         LET r == CreateTenant(strategy, stores[Target(k)], fault)
         IN /\ stores' = [stores EXCEPT ![Target(k)] = r.store]
            /\ binding' = Rebind(r.bind, k)
            /\ lastAdmin' = <<"create_tenant_database", r.ok>>
    /\ UNCHANGED <<located, strategy, threaded, now, licenses, session, proc>>

\* TenantManager.initialize_tenant_data called on its own
initialize_tenant_data(k) ==
    /\ Admit
    /\ licenses[k].present
    /\ \E fault \in {"none", "late"} :
         LET r == InitializeTenant(strategy, stores[Target(k)], licenses[k], fault)
         IN /\ stores' = [stores EXCEPT ![Target(k)] = r.store]
            /\ lastAdmin' = <<"initialize_tenant_data", r.ok>>
    /\ binding' = IF strategy = "postgres" THEN Master ELSE binding
    /\ UNCHANGED <<located, strategy, threaded, now, licenses, session, proc>>

\* TenantManager.delete_tenant_database called on its own
delete_tenant_database(k) ==
    /\ Admit
    /\ LET r == DeleteTenant(strategy, stores[Target(k)])
       IN /\ stores' = [stores EXCEPT ![Target(k)] = r.store]
          /\ lastAdmin' = <<"delete_tenant_database", r.ok>>
    /\ UNCHANGED <<located, strategy, threaded, now, licenses, binding, session, proc>>

\* TenantManager.switch_tenant_database called inside a request of session s:
\* [ok, bind]
SwitchTenant(strategy_, store) ==
    IF strategy_ = "postgres" THEN [ok |-> TRUE, bind |-> "tenant"]
    ELSE IF ~store.exists THEN [ok |-> FALSE, bind |-> "keep"]
    ELSE [ok |-> TRUE, bind |-> "tenant"]

switch_tenant_database(s, k) ==
    /\ Admit
    /\ LET r == SwitchTenant(strategy, stores[Target(k)])
       IN /\ binding' = Rebind(r.bind, k)
          /\ session' = IF r.ok THEN [session EXCEPT ![s] = k] ELSE session
          /\ lastAdmin' = <<"switch_tenant_database", r.ok>>
    /\ UNCHANGED <<located, strategy, threaded, now, licenses, stores, proc>>

\* The tenant's user administration deactivates the account of its first user
deactivate_user(k) ==
    /\ Admit
    /\ stores[Target(k)].exists /\ stores[Target(k)].tables
    /\ Len(stores[Target(k)].users) >= 1
    /\ stores[Target(k)].users[1].is_active
    /\ stores' = [stores EXCEPT ![Target(k)].users[1].is_active = FALSE]
    /\ UNCHANGED <<located, strategy, threaded, now, licenses, binding, session, proc,
                   lastAdmin>>

\* --------------------------------------------------------------------- runs
Credentials == {<<"admin", "secret">>, <<"admin", "wrong">>, <<"guest", "secret">>}

Start(s, faults) ==
    \/ \E c \in Credentials, k \in SubmittedKeys : LoginVerifyLicense(s, c[1], c[2], k)
    \/ \E path \in RequestPaths : RouterValidate(s, path, faults)

Step(s, faults) ==
    \/ LoginCheckExists(s)
    \/ LoginCreate(s, faults)
    \/ LoginSeedQuery(s, faults)
    \/ LoginSeedCommit(s, faults)
    \/ LoginAuthenticate(s)
    \/ LoginPromote(s)
    \/ RouterSwitch(s)
    \/ BusinessAccess(s)
    \/ Return(s)

Administration ==
    \/ \E k \in AdminKeys : activate_license(k)
    \/ \E k \in AdminKeys : suspend_license(k)
    \/ \E k \in AdminKeys : deactivate_license(k)
    \/ \E k \in AdminKeys, days \in ExtendDays : extend_license(k, days)
    \/ \E k \in AdminKeys \cap LicenseKeys : delete_license(k)
    \/ \E k \in AdminKeys \cap LicenseKeys : create_tenant_database(k)
    \/ \E k \in AdminKeys \cap LicenseKeys : initialize_tenant_data(k)
    \/ \E k \in AdminKeys \cap LicenseKeys : deactivate_user(k)
    \/ Tick

\* Requests handled one at a time
Next ==
    \/ \E s \in Sessions : Start(s, Faults)
    \/ \E s \in Sessions : Step(s, Faults)
    \/ Administration
    \/ AdminDone

Spec == Init /\ [][Next]_vars

\* Stores as the business logic may have left them: any part of the seed
\* bundle present, the admin present, absent, or its e-mail taken by another
PartialStores ==
    {[exists |-> TRUE, tables |-> TRUE, roles |-> r, branches |-> b,
      accounts |-> a, users |-> u] :
        r \in [SeedRoles -> {0, 1}], b \in {0, 1}, a \in [SeedAccounts -> {0, 1}],
        u \in {<<>>, <<AdminUser(NewLicense(K1, NULL))>>,
               <<[AdminUser(NewLicense(K1, NULL)) EXCEPT !.username = "clerk",
                                                        !.is_admin = FALSE]>>}}

InitSeed ==
    /\ strategy \in {"postgres", "sqlite"}
    /\ threaded = FALSE
    /\ now = 0
    /\ licenses = [k \in SubmittedKeys |->
                     IF k \in LicenseKeys THEN NewLicense(k, NULL) ELSE NoLicense]
    /\ \E st \in PartialStores \cup {NoStore} :
         stores = [t \in {TargetFor(strategy, k) : k \in SubmittedKeys} |->
                     IF t = TargetFor(strategy, K1) THEN st ELSE NoStore]
    /\ binding = Master
    /\ session = [s \in Sessions |-> NoKey]
    /\ proc = [s \in Sessions |-> IdleProc]
    /\ lastAdmin = NoAdmin
    /\ located = NoLocated

\* The provisioner called directly, one call at a time
NextSeed ==
    \/ create_tenant_database(K1)
    \/ initialize_tenant_data(K1)
    \/ AdminDone

SpecSeed == InitSeed /\ [][NextSeed]_vars

\* Requests of different sessions handled concurrently, the storage layer
\* raising no fault
NextConc ==
    \/ \E s \in Sessions : Start(s, {"none"})
    \/ \E s \in Sessions : Step(s, {"none"})

InitConc ==
    /\ strategy \in {"postgres", "sqlite"}
    /\ threaded = TRUE
    /\ now = 0
    /\ licenses = [k \in SubmittedKeys |->
                     IF k \in LicenseKeys
                     THEN NewLicense(k, IF k = K1 THEN <<0>> ELSE NULL)
                     ELSE NoLicense]
    /\ stores = [t \in {TargetFor(strategy, k) : k \in SubmittedKeys} |-> NoStore]
    /\ binding = Master
    /\ session = [s \in Sessions |-> NoKey]
    /\ proc = [s \in Sessions |-> IdleProc]
    /\ lastAdmin = NoAdmin
    /\ located = NoLocated

SpecConc == InitConc /\ [][NextConc]_vars

\* Logins and requests handled one at a time, the storage layer raising
\* faults, with the tenant manager's switch and delete called in between
NextOps ==
    \/ \E s \in Sessions : Start(s, Faults)
    \/ \E s \in Sessions : Step(s, Faults)
    \/ \E k \in LicenseKeys : delete_tenant_database(k)
    \/ \E s \in Sessions, k \in LicenseKeys : switch_tenant_database(s, k)
    \/ AdminDone

SpecOps == Init /\ [][NextOps]_vars

\* The locator called on its own for two identifiers
InitLocator ==
    /\ strategy \in {"postgres", "sqlite"}
    /\ threaded = FALSE
    /\ now = 0
    /\ licenses = [k \in SubmittedKeys |-> NoLicense]
    /\ stores = [t \in {TargetFor(strategy, k) : k \in SubmittedKeys} |-> NoStore]
    /\ binding = Master
    /\ session = [s \in Sessions |-> NoKey]
    /\ proc = [s \in Sessions |-> IdleProc]
    /\ lastAdmin = NoAdmin
    /\ \E k1 \in LocatorKeys, k2 \in LocatorKeys :
         located = [NoLocated EXCEPT !.keys = <<k1, k2>>]

Locate ==
    /\ located.keys # <<>> /\ located.schemas = <<>>
    /\ located' = [located EXCEPT
                     !.schemas = <<_schema_name(located.keys[1]),
                                   _schema_name(located.keys[2])>>,
                     !.paths = <<get_tenant_db_path(located.keys[1]),
                                 get_tenant_db_path(located.keys[2])>>]
    /\ UNCHANGED <<strategy, threaded, now, licenses, stores, binding, session, proc,
                   lastAdmin>>

SpecLocator == InitLocator /\ [][Locate]_vars

\* Every state of a license record: absent, or present with any flags and
\* an expiry that is NULL or a point of the clock
LicenseStates ==
    {NoLicense} \cup
    {[NewLicense(K1, e) EXCEPT !.is_active = a, !.is_suspended = u] :
        e \in {NULL} \cup {<<t>> : t \in 0..MaxTime}, a \in BOOLEAN, u \in BOOLEAN}

\* A deployment in which tenant K1 is provisioned and session s1 is bound
\* to it, license K1 being in any state at any time of the clock
InitLicense ==
    /\ strategy \in {"postgres", "sqlite"}
    /\ threaded = FALSE
    /\ now \in 0..MaxTime
    /\ \E lic \in LicenseStates :
         licenses = [k \in SubmittedKeys |->
                       CASE k = K1 -> lic
                         [] k = K2 -> NewLicense(K2, NULL)
                         [] OTHER -> NoLicense]
    /\ stores = [t \in {TargetFor(strategy, k) : k \in SubmittedKeys} |->
                   IF t = TargetFor(strategy, K1)
                   THEN SeedCommit([NoStore EXCEPT !.exists = TRUE, !.tables = TRUE],
                                   SeedQuery(NoStore, NewLicense(K1, NULL)),
                                   NewLicense(K1, NULL))
                   ELSE NoStore]
    /\ binding = Master
    /\ session = [s \in Sessions |-> IF s = "s1" THEN K1 ELSE NoKey]
    /\ proc = [s \in Sessions |-> IdleProc]
    /\ lastAdmin = NoAdmin
    /\ located = NoLocated

\* Logins and requests handled one at a time, with the license
\* administration calls in between
NextLicense ==
    \/ \E s \in Sessions : Start(s, {"none"})
    \/ \E s \in Sessions : Step(s, {"none"})
    \/ \E k \in AdminKeys : activate_license(k)
    \/ \E k \in AdminKeys : suspend_license(k)
    \/ \E k \in AdminKeys : deactivate_license(k)
    \/ \E k \in AdminKeys, days \in ExtendDays : extend_license(k, days)
    \/ AdminDone

SpecLicense == InitLicense /\ [][NextLicense]_vars

\* TenantManager.list_all_tenants called on its own
list_all_tenants ==
    /\ Admit
    /\ located' = [located EXCEPT !.listed =
                     <<ListTenants(strategy, {t \in DOMAIN stores : stores[t].exists})>>]
    /\ UNCHANGED <<strategy, threaded, now, licenses, stores, binding, session, proc,
                   lastAdmin>>

\* A deployment with no tenant yet and one identifier to provision
InitListing ==
    /\ strategy \in {"postgres", "sqlite"}
    /\ threaded = FALSE
    /\ now = 0
    /\ licenses = [k \in SubmittedKeys |-> NoLicense]
    /\ \E k \in LocatorKeys :
         /\ located = [NoLocated EXCEPT !.keys = <<k>>]
         /\ stores = [t \in {TargetFor(strategy, k)} |-> NoStore]
    /\ binding = Master
    /\ session = [s \in Sessions |-> NoKey]
    /\ proc = [s \in Sessions |-> IdleProc]
    /\ lastAdmin = NoAdmin

\* The tenant created, deleted and the tenants listed, one call at a time
NextListing ==
    \/ create_tenant_database(located.keys[1])
    \/ delete_tenant_database(located.keys[1])
    \/ list_all_tenants
    \/ AdminDone

SpecListing == InitListing /\ [][NextListing]_vars

\* =================================================================== claims
NonExemptRequest(s) == proc[s].kind = "request" /\ ~IsExempt(proc[s].path)

\* A license record that is unusable: absent, inactive, suspended or expired
Unusable(lic) ==
    \/ ~lic.present
    \/ ~lic.is_active
    \/ lic.is_suspended
    \/ (lic.expires_at # NULL /\ lic.expires_at[1] < now)

LicenseFailures ==
    {"license_not_found", "license_inactive", "license_suspended", "license_expired"}

\* C1: with requests handled one at a time, whenever the router hands a
\* non-exempt request off to business logic, the process-wide binding is the
\* storage target of the tenant key held in the request's session.
C1_HandoffBound ==
    \A s \in Sessions :
        (NonExemptRequest(s) /\ proc[s].result = "handoff"
            /\ proc[s].pc \in {"business", "done"})
        => /\ session[s] # NoKey
           /\ binding = TargetFor(strategy, session[s])
           /\ (proc[s].obs # NULL => proc[s].obs[1] = TargetFor(strategy, session[s]))

\* C1 witness: a request of a session bound to K1 is handed off while the
\* other session is bound to K2
C1_Witness ==
    \E s \in Sessions, t \in Sessions :
        /\ s # t /\ session[s] = K1 /\ session[t] = K2
        /\ NonExemptRequest(s) /\ proc[s].pc = "business"
        /\ binding = TargetFor(strategy, K1)

\* C2: when requests of sessions of different tenants are handled
\* concurrently, every business-logic data access of a non-exempt request
\* resolves against the target of that request's own tenant.
C2_AccessOwnTenant ==
    [][\A s \in Sessions, t \in Sessions :
        (/\ NonExemptRequest(s) /\ NonExemptRequest(t)
         /\ proc[s].key # NoKey /\ proc[t].key # NoKey /\ proc[s].key # proc[t].key
         /\ proc[t].pc \in {"R_finally", "business"}
         /\ proc[s].pc = "business" /\ proc'[s].pc = "done")
        => proc'[s].obs = <<TargetFor(strategy, proc[s].key)>>]_vars

\* C3: a login whose license is not found, inactive, suspended or expired
\* returns failure without touching tenant storage: no existence check, no
\* create, no seeding, no tenant bind.
C3_InvalidLicenseTouchesNothing ==
    \A s \in Sessions :
        (proc[s].kind = "login" /\ Unusable(proc[s].lic))
        => /\ proc[s].pc = "done"
           /\ proc[s].result \in LicenseFailures
           /\ proc[s].touched = {}
           /\ proc[s].user = NULL

\* C3 witness: a login with an expired license for a tenant that has no
\* store has returned
C3_Witness ==
    \E s \in Sessions :
        /\ proc[s].kind = "login" /\ proc[s].pc = "done"
        /\ proc[s].lic.present /\ proc[s].lic.is_active /\ ~proc[s].lic.is_suspended
        /\ Unusable(proc[s].lic)
        /\ ~stores[TargetFor(strategy, proc[s].key)].exists

\* C4: when the license of a session's tenant has become suspended,
\* deactivated, removed or expired, the next non-exempt request of the
\* session (its master lookup not raising) is redirected to login, the
\* session's tenant binding is cleared and business logic does not run.
C4_RevalidationRedirects ==
    \A s \in Sessions :
        (NonExemptRequest(s) /\ proc[s].key # NoKey /\ Unusable(licenses[proc[s].key])
            /\ proc[s].result # "exception")
        => /\ proc[s].result = "redirect_login"
           /\ session[s] = NoKey
           /\ proc[s].pc \in {"R_finally", "done"}
           /\ proc[s].obs = NULL

\* C4 witness: a request of a session that was bound to a now suspended,
\* unexpired license has been answered
C4_Witness ==
    \E s \in Sessions :
        /\ NonExemptRequest(s) /\ proc[s].pc = "done" /\ proc[s].key = K1
        /\ licenses[K1].present /\ licenses[K1].is_active /\ licenses[K1].is_suspended
        /\ ~(licenses[K1].expires_at # NULL /\ licenses[K1].expires_at[1] < now)
        /\ proc[s].result = "redirect_login"

AuthFailures == {"user_not_found", "bad_password", "account_inactive"}
ProvisioningFailures == {"create_failed", "init_failed"}

\* A login of session s whose existence check found the tenant's store
LoginOnExistingStore(s) ==
    /\ proc[s].kind = "login"
    /\ "exists" \in proc[s].touched /\ "create" \notin proc[s].touched

\* C5: a login with a valid license and an existing tenant store that fails
\* at the user-authentication stage creates no session binding and never
\* leaves the process-wide binding at the tenant's target.
C5_AuthFailureLeavesBinding ==
    [][\A s \in Sessions :
        (/\ proc[s].kind = "login" /\ proc[s].pc = "L_auth"
         /\ "create" \notin proc[s].touched
         /\ proc'[s].pc = "done" /\ proc'[s].result \in AuthFailures)
        => /\ session' = session
           /\ binding' # TargetFor(strategy, proc[s].key)]_vars

\* Exactly one of each seed item: 3 roles, 1 branch, 5 accounts, 1 admin user
ExactlySeeded(store, username) ==
    /\ store.exists /\ store.tables
    /\ \A r \in SeedRoles : store.roles[r] = 1
    /\ store.branches = 1
    /\ \A a \in SeedAccounts : store.accounts[a] = 1
    /\ Len(store.users) = 1
    /\ store.users[1].username = username /\ store.users[1].is_admin

\* A login submitting the admin credentials its license carries
AdminLogin(s) ==
    /\ proc[s].kind = "login"
    /\ proc[s].lic.present
    /\ proc[s].username = proc[s].lic.admin_username
    /\ Hash(proc[s].password) = proc[s].lic.admin_password_hash

\* C6: two concurrent admin logins for the same brand-new tenant both return
\* success and the store holds exactly one of each seed item.
C6_ConcurrentFirstLogin ==
    \A s \in Sessions, t \in Sessions :
        (/\ s # t /\ AdminLogin(s) /\ AdminLogin(t) /\ proc[s].key = proc[t].key
         /\ "create" \in proc[s].touched /\ "create" \in proc[t].touched
         /\ proc[s].pc = "done" /\ proc[t].pc = "done")
        => /\ proc[s].result = "ok" /\ proc[t].result = "ok"
           /\ ExactlySeeded(stores[TargetFor(strategy, proc[s].key)], proc[s].username)

\* No seed item is missing from the store (the admin counts as present when
\* its username or its e-mail is taken)
NothingToSeed(store, lic) ==
    /\ \A r \in SeedRoles : store.roles[r] >= 1
    /\ store.branches >= 1
    /\ \A a \in SeedAccounts : store.accounts[a] >= 1
    /\ \E i \in 1..Len(store.users) :
         \/ store.users[i].username = lic.admin_username
         \/ store.users[i].email = SeedEmail(lic)

\* C7: create_tenant_database and initialize_tenant_data, called directly
\* on a store holding any part of the seed bundle, add an item only where
\* none with its natural key exists, leave nothing missing when they
\* succeed, and change nothing when called again on the seeded store.
C7_SeedIdempotent ==
    [][LET old == stores[TargetFor(strategy, K1)]
           new == stores'[TargetFor(strategy, K1)]
           lic == licenses[K1]
       IN /\ \A r \in SeedRoles :
                new.roles[r] = old.roles[r] \/ (old.roles[r] = 0 /\ new.roles[r] = 1)
          /\ new.branches = old.branches \/ (old.branches = 0 /\ new.branches = 1)
          /\ \A a \in SeedAccounts :
                new.accounts[a] = old.accounts[a]
                \/ (old.accounts[a] = 0 /\ new.accounts[a] = 1)
          /\ \/ new.users = old.users
             \/ /\ \A i \in 1..Len(old.users) : old.users[i].username # lic.admin_username
                /\ Len(new.users) = Len(old.users) + 1
                /\ SubSeq(new.users, 1, Len(old.users)) = old.users
                /\ new.users[Len(new.users)].username = lic.admin_username
          /\ lastAdmin' = <<"initialize_tenant_data", TRUE>> => NothingToSeed(new, lic)
          /\ (old.exists /\ old.tables /\ NothingToSeed(old, lic)) => new = old]_vars

\* C7 witness: initialize_tenant_data has returned True on a store created
\* before, and the store holds exactly one of each seed item
C7_Witness ==
    /\ lastAdmin = <<"initialize_tenant_data", TRUE>>
    /\ ExactlySeeded(stores[TargetFor(strategy, K1)], "admin")

\* C8: an admin login with a valid license for a tenant without a store
\* (provisioning not failing) creates the store, seeds exactly 3 roles,
\* 1 branch, 5 accounts and 1 admin user, returns success with that user
\* and binds the session to the submitted key.
C8_FreshTenantLogin ==
    \A s \in Sessions :
        (/\ AdminLogin(s) /\ proc[s].pc = "done" /\ "create" \in proc[s].touched
         /\ proc[s].result \notin ProvisioningFailures)
        => /\ proc[s].result = "ok"
           /\ ExactlySeeded(stores[TargetFor(strategy, proc[s].key)], proc[s].username)
           /\ proc[s].user = <<TargetFor(strategy, proc[s].key), 1>>
           /\ session[s] = proc[s].key

\* C8 witness: a fresh-tenant admin login for K2 has returned success
C8_Witness ==
    \E s \in Sessions :
        /\ AdminLogin(s) /\ proc[s].pc = "done" /\ "create" \in proc[s].touched
        /\ proc[s].key = K2 /\ proc[s].result = "ok"

\* Number of rows per seeded table
Counts(store) ==
    <<RoleCount(store), store.branches, AccountCount(store), Len(store.users)>>

\* The first user of that name exists, is active and has that password
CanLogIn(store, username, password) ==
    /\ store.exists /\ store.tables
    /\ \E i \in 1..Len(store.users) :
         /\ store.users[i].username = username
         /\ \A j \in 1..(i - 1) : store.users[j].username # username
         /\ store.users[i].password_hash = Hash(password)
         /\ store.users[i].is_active

\* C9: a login repeated against an already provisioned tenant, with the
\* credentials of a user who can log in, succeeds again and leaves the
\* number of roles, branches, accounts and users unchanged.
C9_RepeatLogin ==
    [][\A s \in Sessions :
        LET T == TargetFor(strategy, proc[s].key) IN
        (/\ proc[s].kind = "login" /\ proc[s].pc \in {"L_exists", "L_auth", "L_promote"}
         /\ "create" \notin proc[s].touched
         /\ proc'[s].pc # proc[s].pc
         /\ CanLogIn(stores[T], proc[s].username, proc[s].password))
        => /\ Counts(stores'[T]) = Counts(stores[T])
           /\ proc'[s].pc \in {"L_auth", "L_promote", "done"}
           /\ proc'[s].pc = "done"
                => (proc'[s].result = "ok" /\ session'[s] = proc[s].key)]_vars

\* C9 witness: a login that found the store provisioned has succeeded
C9_Witness ==
    \E s \in Sessions :
        /\ LoginOnExistingStore(s) /\ proc[s].pc = "done" /\ proc[s].result = "ok"
        /\ ExactlySeeded(stores[TargetFor(strategy, proc[s].key)], proc[s].username)

\* C10: when create_tenant_database or initialize_tenant_data fails
\* during a login, the login returns a provisioning failure, no user is
\* authenticated and the session holds no tenant binding afterwards.
C10_ProvisioningFailureClearsSession ==
    \A s \in Sessions :
        (proc[s].kind = "login" /\ proc[s].pc = "done"
            /\ proc[s].result \in ProvisioningFailures)
        => /\ proc[s].user = NULL
           /\ session[s] = NoKey

\* C11: after a login that created the tenant's store but failed to seed
\* it, a later login with the same valid license and the license's admin
\* credentials runs the missing seeding and succeeds.
C11_RecoversFromFailedSeeding ==
    \A s \in Sessions :
        (/\ AdminLogin(s) /\ LoginOnExistingStore(s) /\ proc[s].pc = "done"
         /\ stores[TargetFor(strategy, proc[s].key)].tables)
        => /\ proc[s].result = "ok"
           /\ NothingToSeed(stores[TargetFor(strategy, proc[s].key)], proc[s].lic)

\* C12: the locator never merges two distinct identifiers: their schema
\* names differ and their tenant file paths differ.
C12_LocatorCollisionFree ==
    (located.schemas # <<>> /\ located.keys[1] # located.keys[2])
    => /\ located.schemas[1] # located.schemas[2]
       /\ located.paths[1] # located.paths[2]

\* Case folding and '-' to '_' applied to an identifier
Normalized(k) ==
    [i \in 1..Len(k) |->
        CASE k[i] = "A" -> "a"
          [] k[i] = "-" -> "_"
          [] OTHER -> k[i]]

\* C13: two identifiers resolve to the same schema name and to the same
\* tenant file path exactly when they are equal up to letter case and
\* '-' versus '_'.
C13_LocatorNormalizes ==
    located.schemas # <<>>
    => LET same == Normalized(located.keys[1]) = Normalized(located.keys[2])
       IN /\ same <=> located.schemas[1] = located.schemas[2]
          /\ same <=> located.paths[1] = located.paths[2]

\* C14: for a non-exempt request whose session carries a tenant key, the
\* switch to the tenant runs on every exit path of the router (hand-off,
\* redirect after a failed validation, exception in the master lookup):
\* once the router is left the binding is that tenant's target, not master.
C14_SwitchOnEveryExit ==
    \A s \in Sessions :
        (NonExemptRequest(s) /\ proc[s].key # NoKey
            /\ proc[s].pc \in {"business", "done"})
        => /\ binding = TargetFor(strategy, proc[s].key)
           /\ binding # MasterTarget(strategy)

\* C14 witness: the router was left by an exception of the master lookup
\* with the binding at the tenant
C14_Witness ==
    \E s \in Sessions :
        /\ NonExemptRequest(s) /\ proc[s].pc = "done" /\ proc[s].key = K1
        /\ proc[s].result = "exception"
        /\ binding = TargetFor(strategy, K1)

\* C15: whenever authenticate_with_license returns success, the license was
\* found, active, not suspended and unexpired; the returned user is a row of
\* that tenant's store, active, with the submitted name and password; the
\* binding is the tenant's target; the session is bound to the submitted
\* key; and last_login was recorded on that row of the tenant store.
C15_SuccessfulLogin ==
    \A s \in Sessions :
        (proc[s].kind = "login" /\ proc[s].pc = "done" /\ proc[s].result = "ok")
        => LET T == TargetFor(strategy, proc[s].key)
               lic == proc[s].lic
           IN /\ lic.present /\ lic.is_active /\ ~lic.is_suspended
              /\ ~(lic.expires_at # NULL /\ lic.expires_at[1] < now)
              /\ proc[s].user # NULL
              /\ proc[s].user[1] = T /\ T # MasterTarget(strategy)
              /\ stores[T].exists /\ stores[T].tables
              /\ proc[s].user[2] \in 1..Len(stores[T].users)
              /\ LET u == stores[T].users[proc[s].user[2]]
                 IN /\ u.username = proc[s].username
                    /\ u.password_hash = Hash(proc[s].password)
                    /\ u.is_active
                    /\ u.last_login = <<now>>
              /\ binding = T
              /\ session[s] = proc[s].key

\* C15 witness: a login under a license that carries an expiry date has
\* returned success while the other session is bound to the other tenant
C15_Witness ==
    \E s \in Sessions, t \in Sessions :
        /\ proc[s].kind = "login" /\ proc[s].pc = "done" /\ proc[s].result = "ok"
        /\ proc[s].key = K1 /\ proc[s].lic.expires_at # NULL
        /\ t # s /\ session[t] = K2

\* C16: binding to a tenant whose storage target does not exist fails
\* instead of binding: TenantManager.switch_tenant_database reports success
\* only with the binding at an existing target, and the router's switch
\* step does not move the binding to a target that does not exist.
C16_BindRequiresTarget ==
    [][/\ (lastAdmin = NoAdmin /\ lastAdmin'[1] = "switch_tenant_database")
          => IF lastAdmin'[2]
             THEN binding' \in DOMAIN stores /\ stores[binding'].exists
             ELSE binding' = binding /\ session' = session
       /\ \A s \in Sessions :
            (/\ proc[s].pc = "R_finally" /\ proc'[s].pc # "R_finally"
             /\ ~stores[TargetFor(strategy, proc[s].key)].exists)
            => /\ binding' # TargetFor(strategy, proc[s].key)
               /\ proc'[s].pc # "business"]_vars

\* C17: a non-exempt request of a session without tenant key ends with a
\* redirect, to logout when the caller is authenticated and to login
\* otherwise; it is not handed off to business logic and changes neither
\* the binding, the session nor the license snapshot.
C17_NoTenantRedirects ==
    [][\A s \in Sessions :
        (/\ proc[s].pc = "idle" /\ proc'[s].kind = "request"
         /\ ~IsExempt(proc'[s].path) /\ session[s] = NoKey)
        => /\ proc'[s].pc = "done"
           /\ proc'[s].result = IF proc'[s].authenticated THEN "redirect_logout"
                                 ELSE "redirect_login"
           /\ proc'[s].obs = NULL
           /\ proc'[s].license_data = NULL
           /\ binding' = binding
           /\ session' = session]_vars

\* C17 witness: an authenticated caller without tenant key was sent to
\* logout while the binding stayed at a tenant's target
C17_Witness ==
    \E s \in Sessions :
        /\ NonExemptRequest(s) /\ proc[s].key = NoKey /\ session[s] = NoKey
        /\ proc[s].pc = "done" /\ proc[s].result = "redirect_logout"
        /\ binding = TargetFor(strategy, K1)

\* A path that starts with a prefix of the exemption list
HasExemptPrefix(path) ==
    \E e \in EXEMPT_ROUTES : SubSeq(path, 1, Len(e)) = e

\* C18: for a request whose path starts with a prefix of the exemption
\* list the router does no tenant logic: it leaves the binding, the
\* session's tenant binding and the license snapshot unchanged and goes on
\* to business logic, whatever the state of the session's license.
C18_ExemptSkipsTenantLogic ==
    [][\A s \in Sessions :
        (/\ proc[s].pc = "idle" /\ proc'[s].kind = "request"
         /\ HasExemptPrefix(proc'[s].path))
        => /\ proc'[s].pc = "business" /\ proc'[s].result = "handoff"
           /\ proc'[s].license_data = NULL
           /\ binding' = binding
           /\ session' = session]_vars

\* C18 witness: an exempt request of a session whose license is suspended
\* goes on to business logic with the session still bound, while the
\* binding is not at that tenant
C18_Witness ==
    \E s \in Sessions :
        /\ proc[s].kind = "request" /\ HasExemptPrefix(proc[s].path)
        /\ proc[s].pc = "business"
        /\ session[s] = K1 /\ licenses[K1].present /\ licenses[K1].is_suspended
        /\ binding # TargetFor(strategy, K1)

\* The reason the fixed order gives a failed login: the license tests,
\* then provisioning, then user not found, password mismatch, account
\* inactive ("none" when no reason applies)
FirstReason(s) ==
    LET lic == proc[s].lic
        st == stores[TargetFor(strategy, proc[s].key)]
        named == {i \in 1..Len(st.users) : st.users[i].username = proc[s].username}
        u == st.users[CHOOSE i \in named : \A j \in named : i <= j]
    IN CASE ~lic.present -> "license_not_found"
         [] ~lic.is_active -> "license_inactive"
         [] lic.is_suspended -> "license_suspended"
         [] lic.expires_at # NULL /\ lic.expires_at[1] < now -> "license_expired"
         [] "create" \in proc[s].touched /\ "init" \notin proc[s].touched -> "create_failed"
         [] "init" \in proc[s].touched /\ "bind" \notin proc[s].touched -> "init_failed"
         [] named = {} -> "user_not_found"
         [] u.password_hash # Hash(proc[s].password) -> "bad_password"
         [] ~u.is_active -> "account_inactive"
         [] OTHER -> "none"

\* C19: a login that returns failure reports the first reason that applies
\* in the order license not found, inactive, suspended, expired,
\* provisioning failed, user not found, password mismatch, account
\* inactive, and the reasons have pairwise distinct messages.
C19_FirstReasonReported ==
    /\ \A s \in Sessions :
          (proc[s].kind = "login" /\ proc[s].pc = "done"
              /\ proc[s].result \notin {"ok", "exception"})
          => proc[s].result = FirstReason(s)
    /\ \A r1 \in LicenseFailures \cup ProvisioningFailures \cup AuthFailures :
          /\ Message(r1) # <<>>
          /\ \A r2 \in LicenseFailures \cup ProvisioningFailures \cup AuthFailures :
                r1 # r2 => Message(r1) # Message(r2)

\* C19 witness: a login naming a deactivated user with a wrong password has
\* been refused for the password
C19_Witness ==
    \E s \in Sessions :
        /\ proc[s].kind = "login" /\ proc[s].pc = "done"
        /\ proc[s].result = "bad_password"
        /\ LET st == stores[TargetFor(strategy, proc[s].key)]
           IN \E i \in 1..Len(st.users) :
                /\ st.users[i].username = proc[s].username
                /\ ~st.users[i].is_active

\* C20: when initialize_tenant_data fails after adding or flushing seed
\* items, it returns failure and the store holds exactly the rows it held
\* before the call.
C20_SeedAllOrNothing ==
    [][(lastAdmin = NoAdmin /\ lastAdmin' = <<"initialize_tenant_data", FALSE>>)
       => LET old == stores[TargetFor(strategy, K1)]
              new == stores'[TargetFor(strategy, K1)]
          IN /\ new.roles = old.roles
             /\ new.branches = old.branches
             /\ new.accounts = old.accounts
             /\ new.users = old.users]_vars

\* C20 witness: initialize_tenant_data has failed on a store that holds
\* part of the seed bundle and lacks a role and the branch
C20_Witness ==
    LET st == stores[TargetFor(strategy, K1)]
    IN /\ lastAdmin = <<"initialize_tenant_data", FALSE>>
       /\ st.exists /\ st.tables
       /\ st.roles["admin"] = 1 /\ st.roles["manager"] = 0 /\ st.branches = 0

\* C21: the router lets a session bound to a license through exactly when
\* stage 1 of the login accepts that license: both accept it exactly when
\* it is present, active, not suspended and not expired.
C21_SameUsabilityPredicate ==
    [][\A s \in Sessions :
        /\ (proc[s].pc = "idle" /\ proc'[s].kind = "login")
           => (proc'[s].pc = "L_exists" <=> ~Unusable(licenses[proc'[s].key]))
        /\ (/\ proc[s].pc = "idle" /\ proc'[s].kind = "request"
            /\ ~IsExempt(proc'[s].path) /\ session[s] # NoKey)
           => (proc'[s].result = "handoff" <=> ~Unusable(licenses[session[s]]))]_vars

\* C21 witness: a login was refused for an inactive license that has no
\* expiry date by a session whose requests are bound to that license
C21_Witness ==
    \E s \in Sessions :
        /\ proc[s].kind = "login" /\ proc[s].pc = "done" /\ proc[s].key = K1
        /\ session[s] = K1
        /\ proc[s].result = "license_inactive"
        /\ licenses[K1].expires_at = NULL /\ ~licenses[K1].is_suspended

\* A license record that suspend_license or deactivate_license has blocked
Blocked(lic) == lic.present /\ (lic.is_suspended \/ ~lic.is_active)

LicenseOps == {"activate", "suspend", "deactivate", "extend"}

\* The step is the return of the administrative call op
Returns(op) == lastAdmin = NoAdmin /\ lastAdmin'[1] = op

\* C22: suspend_license and deactivate_license on an existing license block
\* it; a blocked license stays blocked until activate_license is called,
\* and while it is blocked every login with it fails and every non-exempt
\* request of a session bound to it is redirected to login;
\* activate_license makes the license active and not suspended, and an
\* active, not suspended, unexpired license is accepted by logins and
\* requests; each of the four calls on a key that names no license
\* returns failure and changes no license record.
C22_SuspendUntilActivate ==
    [][/\ \A k \in LicenseKeys :
            /\ (Returns("suspend") /\ licenses'[k] # licenses[k])
               => licenses'[k].is_suspended
            /\ (Returns("deactivate") /\ licenses'[k] # licenses[k])
               => ~licenses'[k].is_active
            /\ (Returns("suspend") \/ Returns("deactivate")) /\ lastAdmin'[2]
               => \E j \in LicenseKeys : Blocked(licenses'[j])
            /\ (Blocked(licenses[k]) /\ ~Returns("activate"))
               => (Blocked(licenses'[k]) \/ ~licenses'[k].present)
            /\ (Returns("activate") /\ lastAdmin'[2] /\ k \in AdminKeys)
               => (licenses'[k].present => ~Blocked(licenses'[k]))
       /\ \A s \in Sessions :
            /\ (proc[s].pc = "idle" /\ proc'[s].kind = "login"
                   /\ Blocked(licenses[proc'[s].key]))
               => (proc'[s].pc = "done" /\ proc'[s].result \in LicenseFailures)
            /\ (proc[s].pc = "idle" /\ proc'[s].kind = "request"
                   /\ ~IsExempt(proc'[s].path) /\ session[s] # NoKey
                   /\ Blocked(licenses[session[s]]) /\ proc'[s].result # "exception")
               => (proc'[s].result = "redirect_login" /\ session'[s] = NoKey)
            /\ (proc[s].pc = "idle" /\ proc'[s].kind = "login"
                   /\ licenses[proc'[s].key].present
                   /\ ~Blocked(licenses[proc'[s].key])
                   /\ ~Expired(licenses[proc'[s].key]))
               => proc'[s].pc = "L_exists"
            /\ (proc[s].pc = "idle" /\ proc'[s].kind = "request"
                   /\ ~IsExempt(proc'[s].path) /\ session[s] # NoKey
                   /\ licenses[session[s]].present
                   /\ ~Blocked(licenses[session[s]])
                   /\ ~Expired(licenses[session[s]])
                   /\ proc'[s].result # "exception")
               => proc'[s].result = "handoff"
       /\ \A op \in LicenseOps :
            Returns(op)
            => IF lastAdmin'[2]
               THEN \E k \in AdminKeys : licenses[k].present
               ELSE licenses' = licenses]_vars

\* C22 witness: activate_license has returned success on a license that is
\* active, not suspended and unexpired, with a session bound to it
C22_Witness ==
    /\ lastAdmin = <<"activate", TRUE>>
    /\ licenses[K1].present /\ ~Blocked(licenses[K1]) /\ ~Expired(licenses[K1])
    /\ \E s \in Sessions : session[s] = K1

\* C23: extend_license with days > 0 on an existing license never makes it
\* expire earlier: a license without expiry keeps none, and an expiry date
\* only moves forward.
C23_ExtendNeverShortens ==
    [][(Returns("extend") /\ lastAdmin'[2])
       => \A k \in LicenseKeys :
            IF licenses[k].expires_at = NULL
            THEN licenses'[k].expires_at = NULL
            ELSE /\ licenses'[k].expires_at # NULL
                 /\ licenses'[k].expires_at[1] >= licenses[k].expires_at[1]]_vars

\* C24: list_all_tenants returns exactly the key whose storage target is
\* provisioned and not deleted, character for character, and no key when
\* no target is provisioned.
C24_ListInvertsLocator ==
    [][(located'.listed # located.listed)
       => LET st == stores[TargetFor(strategy, located.keys[1])]
          IN (st.exists <=> st.tables)
             => located'.listed =
                   <<IF st.exists THEN {located.keys[1]} ELSE {}>>]_vars

====
